---- MODULE Spec2Model ----
(***************************************************************************)
(* A model of examples/nascar.py: the main run (the __main__ block), the   *)
(* cached() decorator, the Gibbs fit_* loops and plot_dynamics.            *)
(*                                                                         *)
(* Python arrays are 0-indexed; a TLA+ sequence s holds array element t at *)
(* s[t+1].  Library calls (pyslds, pybasicbayes, pyhsmm, matplotlib) are   *)
(* black boxes: what they return is drawn nondeterministically, and each   *)
(* may raise.                                                              *)
(***************************************************************************)
EXTENDS Integers, Sequences, FiniteSets, TLC

VARIABLES
    \* ---- the main run -------------------------------------------------
    pc,            \* index into MainStages of the statement to run next
    status,        \* "running", "done" or "raised"
    active,        \* the stages that have been called and not yet returned
    trace,         \* the sequence of <<event, stage>> so far
    mask_start,    \* module globals, line 47
    mask_stop,
    mask,          \* mask[t+1]: time step t is observed
    good_z_init,   \* what fit_arhmm returned as z_init
    z_init,        \* main's z_init after lines 896-898
    permutation,   \* dlist.permutation
    z_perm,        \* what fit_decision_list returned
    handed,        \* the label sequences handed to the fits, in call order
    files,         \* the files written so far
    shown,         \* number of plt.show() calls so far
    panels,        \* what the figure of make_figure holds
    \* ---- cached() ------------------------------------------------------
    cacheOn,       \* CACHE_RESULTS
    dirExists,     \* RESULTS_DIR exists
    resultsFile,   \* the results file: absent, or the pickled results
    fileRemoved,   \* the environment removed the results file at some time
    nCalls,        \* calls of the decorated function so far
    execCount,     \* executions of the underlying function so far
    lastArgs,      \* arguments of the last call
    lastOut,       \* outcome of the last call
    fsOps,         \* the file operations the wrapper performed so far
    \* ---- fit_* ---------------------------------------------------------
    fit_fn,        \* which fit_* function runs
    N_iters,       \* its N_iters argument
    fitpc,         \* position in the function
    fit_i,         \* loop counter
    sweep,         \* the sample the model holds: resample_model() calls so far
    calls,         \* the library calls made so far, in order
    lps,
    z_smpls,
    \* ---- plot_dynamics -------------------------------------------------
    dyn,           \* the dynamics state (k, A, b, center) being plotted
    plot_center,   \* the plot_center argument
    plotpc,        \* "built", "returned" or "raised"
    marker,        \* None, or the centre marker drawn
    printed,       \* messages printed
    labelled,      \* the axes are labelled
    \* ---- simulate_nascar ----------------------------------------------
    cfg,           \* the globals K and K_true of line 46
    sim            \* the outcome of simulate_nascar() and the model it built

mainVars  == <<pc, status, active, trace, mask_start, mask_stop, mask,
               good_z_init, z_init, permutation, z_perm, handed, files,
               shown, panels>>
cacheVars == <<cacheOn, dirExists, resultsFile, fileRemoved, nCalls,
               execCount, lastArgs, lastOut, fsOps>>
fitVars   == <<fit_fn, N_iters, fitpc, fit_i, sweep, calls, lps, z_smpls>>
plotVars  == <<dyn, plot_center, plotpc, marker, printed, labelled>>
simVars   == <<cfg, sim>>
vars      == <<mainVars, cacheVars, fitVars, plotVars, simVars>>

None == "None"

(***************************************************************************)
(* Global parameters (line 46).  T is 10000 in the script; the model keeps *)
(* the name and scales it down.                                            *)
(***************************************************************************)
T == 3
K == 4
D_obs == 10

Labels == 0 .. (K - 1)

K_true == 4

(***************************************************************************)
(* cached(results_name), lines 56-77.                                      *)
(***************************************************************************)
CACHE_RESULTS == FALSE
RESULTS_DIR == "results/nascar/run001"

\* What the n-th execution of the decorated function on args returns.
func(args, n) == [results_of |-> args, execution |-> n]

NoResults == [results_of |-> 0, execution |-> 0]

\* The results file: absent, or holding pickled results.
Absent == [exists |-> FALSE, content |-> NoResults]
Holding(results) == [exists |-> TRUE, content |-> results]

\* The outcome of a call: results returned, or an exception raised.
Returned(results) == [raised |-> "", results |-> results]
Raised(exception) == [raised |-> exception, results |-> NoResults]

\* func_wrapper, lines 59-72: one call with the results file in state file,
\* RESULTS_DIR existing or not (dir), as the n-th execution of func.
\* open(results_file, "wb") raises FileNotFoundError when RESULTS_DIR does
\* not exist: nothing in the script creates it.
func_wrapper(dir, file, args, n) ==
    IF file.exists
    THEN [executed |-> FALSE, out |-> Returned(file.content), file |-> file,
          ops |-> {"exists", "read"}]
    ELSE IF dir
         THEN [executed |-> TRUE, out |-> Returned(func(args, n)),
               file |-> Holding(func(args, n)), ops |-> {"exists", "write"}]
         ELSE [executed |-> TRUE, out |-> Raised("FileNotFoundError"),
               file |-> file, ops |-> {"exists"}]

\* A faulty variant of cached: the wrapper is installed whatever
\* CACHE_RESULTS is.
cached_always_wraps(on, dir, file, args, n) == func_wrapper(dir, file, args, n)

\* One call of cached(name)(func): with CACHE_RESULTS off _cache is the
\* identity (line 75), so the call is a call of func itself.
cached(on, dir, file, args, n) ==
    IF on
    THEN func_wrapper(dir, file, args, n)
    ELSE [executed |-> TRUE, out |-> Returned(func(args, n)), file |-> file,
          ops |-> {}]

(***************************************************************************)
(* The plotting helpers, as far as files go: the set of files a call       *)
(* writes.  os.path.join(RESULTS_DIR, f) is <<RESULTS_DIR, f>>, a bare     *)
(* savefig(f) writes <<".", f>>.                                           *)
(***************************************************************************)
plot_all_dynamics(filename) ==
    IF filename # None THEN {<<RESULTS_DIR, filename>>} ELSE {}

\* A faulty variant of plot_trajectory: the guard on filename is lost.
plot_trajectory_unguarded(filename) == {<<".", filename>>}

plot_trajectory(filename) ==
    IF filename # None THEN {<<".", filename>>} ELSE {}

\* plot_trans_probs and plot_separate_trans_probs take a filename and never
\* use it.
plot_trans_probs(filename) == {}

plot_separate_trans_probs(filename) == {}

\* trans_distn is None or a distribution; trargs never carries a filename
\* (filename is a named parameter of plot_trajectory_and_probs itself).
plot_trajectory_and_probs(trans_distn, filename) ==
    (IF trans_distn # None THEN plot_trans_probs(None) ELSE {})
    \cup plot_trajectory(None)
    \cup (IF filename # None THEN {<<RESULTS_DIR, filename>>} ELSE {})

plot_data(filename) ==
    IF filename # None THEN {<<".", filename>>} ELSE {}

plot_z_samples(filename) ==
    IF filename # None THEN {<<RESULTS_DIR, filename>>} ELSE {}

\* make_figure, lines 96-168: the six panels, each with its title, the
\* model (by parameter name) whose quantities it draws, and what it draws.
make_figure_panels ==
    { [ax |-> "ax1", title |-> "True Latent Dynamics",
       of |-> "true", shows |-> "dynamics"],
      [ax |-> "ax1", title |-> "True Latent Dynamics",
       of |-> "true", shows |-> "trajectory"],
      [ax |-> "ax2", title |-> "Observed Data",
       of |-> "true", shows |-> "observations"],
      [ax |-> "ax3", title |-> "Inferred Dynamics (rSLDS)",
       of |-> "rslds", shows |-> "dynamics"],
      [ax |-> "ax3", title |-> "Inferred Dynamics (rSLDS)",
       of |-> "rslds", shows |-> "segmentation"],
      [ax |-> "ax4", title |-> "Discrete State Samples",
       of |-> "rslds", shows |-> "segmentation"],
      [ax |-> "ax5", title |-> "Generated States (SLDS)",
       of |-> "slds", shows |-> "synthesis"],
      [ax |-> "ax6", title |-> "Generated States (rSLDS)",
       of |-> "rslds", shows |-> "synthesis"] }

\* The files make_figure writes: its helpers are called without a filename
\* (plot_data once per output dimension) and its own savefig calls are
\* commented out.
make_figure_files ==
    plot_trajectory(None)
    \cup UNION { plot_data(None) : n \in 0 .. (D_obs - 1) }
    \cup plot_z_samples(None)

(***************************************************************************)
(* The discrete labels: simulate_nascar's mask, fit_arhmm, lines 893-898   *)
(* of the main block, fit_decision_list.                                   *)
(***************************************************************************)
\* Lines 520-521: mask = ones; mask[mask_start:mask_stop] = False.
mask_of(start, stop) ==
    [t \in 1 .. T |-> ~(start <= t - 1 /\ t - 1 < stop)]

\* Line 893: good_inds = np.all(mask, axis=1), as the set of observed steps.
good_inds(m) == { t \in 1 .. T : m[t] }

\* The position of observed step t among the observed steps.
rank(t, m) == Cardinality({ u \in 1 .. t : m[u] })

\* arhmm.states_list[0].stateseq after add_data(x) on n rows: the first-order
\* autoregression has no label for the first row, so n - 1 labels.
arhmm_stateseqs(n) == [1 .. (n - 1) -> Labels]

\* Lines 603-604: z_init = np.concatenate(([0], stateseq)).
fit_arhmm_z_init(stateseq) == <<0>> \o stateseq

\* Python's z_init[i] for an index that may be -1.
py_index(i) == IF i < 0 THEN T + i + 1 ELSE i + 1

\* Lines 896-898: r is what np.random.randint(0, K, size=T) drew.
assemble_z_init(r, gz, m, start, stop) ==
    LET z1 == [t \in 1 .. T |-> IF m[t] THEN gz[rank(t, m)] ELSE r[t]]
        fill == z1[py_index(start - 1)]
    IN  [t \in 1 .. T |->
            IF start <= t - 1 /\ t - 1 < stop THEN fill ELSE z1[t]]

\* dlist.permutation after DecisionList.fit: an ordering of the K labels.
dlist_permutations ==
    { [i \in 1 .. K |-> q[i] - 1] : q \in Permutations(1 .. K) }

\* np.argsort of an array holding each of 0..K-1 once: where each label is.
argsort(p) ==
    [j \in 1 .. K |-> (CHOOSE i \in 1 .. K : p[i] = j - 1) - 1]

\* pyhsmm's relabel_by_permutation: out[l == idx] = perm[idx] for every idx.
relabel_by_permutation(l, perm) ==
    [t \in 1 .. Len(l) |-> perm[l[t] + 1]]

\* A faulty variant of fit_decision_list: the labels relabelled are the shifted
\* ones the decision list was fitted on (z[1:]).
fit_decision_list_shifted(z, p) == relabel_by_permutation(Tail(z), argsort(p))

\* Lines 618-619.
fit_decision_list(z, p) == relabel_by_permutation(z, argsort(p))

(***************************************************************************)
(* The main block, lines 876-956: its statements in order.  "generate" is  *)
(* lines 944-947, "plt_show" the plt.show() of line 956.                   *)
(***************************************************************************)
\* A faulty variant of MainStages: the two Gibbs fits in the other order.
MainStages_fits_swapped ==
    << "simulate_nascar", "fit_pca", "fit_arhmm", "fit_decision_list",
       "fit_roslds", "fit_slds", "plot_trajectory_and_probs", "generate",
       "make_figure", "plt_show" >>

MainStages ==
    << "simulate_nascar", "fit_pca", "fit_arhmm", "fit_decision_list",
       "fit_slds", "fit_roslds", "plot_trajectory_and_probs", "generate",
       "make_figure", "plt_show" >>

NStages == Len(MainStages)

\* A faulty variant of OnException: the exception is swallowed and the run goes on
\* with the next statement.
OnException_swallowed(i) ==
    [pc |-> i + 1, status |-> IF i + 1 > NStages THEN "done" ELSE "running"]

\* An exception raised by statement i: the block has no try, the run ends.
OnException(i) == [pc |-> i, status |-> "raised"]

MainInit ==
    /\ pc = 1
    /\ status = "running"
    /\ active = {}
    /\ trace = <<>>
    /\ mask_start = 0
    /\ mask_stop = 0
    /\ mask = <<>>
    /\ good_z_init = <<>>
    /\ z_init = <<>>
    /\ permutation = <<>>
    /\ z_perm = <<>>
    /\ handed = <<>>
    /\ files = {}
    /\ shown = 0
    /\ panels = {}

MainIdle ==
    /\ pc = NStages + 1
    /\ status = "done"
    /\ active = {}
    /\ trace = <<>>
    /\ mask_start = 0
    /\ mask_stop = 0
    /\ mask = <<>>
    /\ good_z_init = <<>>
    /\ z_init = <<>>
    /\ permutation = <<>>
    /\ z_perm = <<>>
    /\ handed = <<>>
    /\ files = {}
    /\ shown = 0
    /\ panels = {}

Running(stage) ==
    /\ status = "running"
    /\ pc <= NStages
    /\ MainStages[pc] = stage
    /\ active = {stage}

\* What every return does: the stage is no longer active, the next statement
\* is up.
Returns(stage) ==
    /\ active' = {}
    /\ trace' = Append(trace, <<"return", stage>>)
    /\ pc' = pc + 1
    /\ status' = IF pc + 1 > NStages THEN "done" ELSE "running"

\* The next statement of the block calls its function; the two fits take
\* z_perm as their z_init argument.
Call ==
    /\ status = "running"
    /\ pc <= NStages
    /\ active = {}
    /\ active' = {MainStages[pc]}
    /\ trace' = Append(trace, <<"call", MainStages[pc]>>)
    /\ handed' = IF MainStages[pc] \in {"fit_slds", "fit_roslds"}
                 THEN Append(handed, z_perm) ELSE handed
    /\ UNCHANGED <<pc, status, mask_start, mask_stop, mask, good_z_init,
                   z_init, permutation, z_perm, files, shown, panels>>
    /\ UNCHANGED <<cacheVars, fitVars, plotVars, simVars>>

\* The active function raises: nothing in the block catches it.
Raise ==
    /\ status = "running"
    /\ pc <= NStages
    /\ active = {MainStages[pc]}
    /\ active' = {}
    /\ trace' = Append(trace, <<"raise", MainStages[pc]>>)
    /\ pc' = OnException(pc).pc
    /\ status' = OnException(pc).status
    /\ UNCHANGED <<mask_start, mask_stop, mask, good_z_init, z_init,
                   permutation, z_perm, handed, files, shown, panels>>
    /\ UNCHANGED <<cacheVars, fitVars, plotVars, simVars>>

\* simulate_nascar() returns (line 878); it is decorated with
\* cached("simulated_data").
Return_simulate_nascar ==
    /\ Running("simulate_nascar")
    /\ K_true = 4
    /\ LET r == cached(CACHE_RESULTS, dirExists, resultsFile, 0, 1)
       IN  /\ r.out.raised = ""
           /\ files' = files \cup
                 (IF "write" \in r.ops
                  THEN {<<RESULTS_DIR, "simulated_data.pkl">>} ELSE {})
    /\ mask' = mask_of(mask_start, mask_stop)
    /\ Returns("simulate_nascar")
    /\ UNCHANGED <<mask_start, mask_stop, good_z_init, z_init, permutation,
                   z_perm, handed, shown, panels>>
    /\ UNCHANGED <<cacheVars, fitVars, plotVars, simVars>>

\* fit_pca, fit_slds, fit_roslds and the two generate() calls return: what
\* they return is opaque here (the fits are modelled by the Fit actions).
Return_library(stage) ==
    /\ stage \in {"fit_pca", "fit_slds", "fit_roslds", "generate"}
    /\ Running(stage)
    /\ Returns(stage)
    /\ UNCHANGED <<mask_start, mask_stop, mask, good_z_init, z_init,
                   permutation, z_perm, handed, files, shown, panels>>
    /\ UNCHANGED <<cacheVars, fitVars, plotVars, simVars>>

Return_fit_pca == Return_library("fit_pca")
Return_fit_slds == Return_library("fit_slds")
Return_fit_roslds == Return_library("fit_roslds")
Return_generate == Return_library("generate")

\* fit_arhmm(good_x_init) returns (line 895) and the block builds z_init
\* (lines 896-898).
Return_fit_arhmm ==
    /\ Running("fit_arhmm")
    /\ \E stateseq \in arhmm_stateseqs(Cardinality(good_inds(mask))) :
       \E r \in [1 .. T -> Labels] :
          /\ good_z_init' = fit_arhmm_z_init(stateseq)
          /\ z_init' = assemble_z_init(r, fit_arhmm_z_init(stateseq), mask,
                                       mask_start, mask_stop)
    /\ Returns("fit_arhmm")
    /\ UNCHANGED <<mask_start, mask_stop, mask, permutation, z_perm, handed,
                   files, shown, panels>>
    /\ UNCHANGED <<cacheVars, fitVars, plotVars, simVars>>

\* fit_decision_list(z_init, x_init) returns (line 911).
Return_fit_decision_list ==
    /\ Running("fit_decision_list")
    /\ \E p \in dlist_permutations :
          /\ permutation' = p
          /\ z_perm' = fit_decision_list(z_init, p)
    /\ Returns("fit_decision_list")
    /\ UNCHANGED <<mask_start, mask_stop, mask, good_z_init, z_init, handed,
                   files, shown, panels>>
    /\ UNCHANGED <<cacheVars, fitVars, plotVars, simVars>>

\* plot_trajectory_and_probs(..., trans_distn=roslds.trans_distn,
\* title="Recurrent SLDS") returns (lines 938-941): no filename.
Return_plot_trajectory_and_probs ==
    /\ Running("plot_trajectory_and_probs")
    /\ files' = files \cup plot_trajectory_and_probs("trans_distn", None)
    /\ Returns("plot_trajectory_and_probs")
    /\ UNCHANGED <<mask_start, mask_stop, mask, good_z_init, z_init,
                   permutation, z_perm, handed, shown, panels>>
    /\ UNCHANGED <<cacheVars, fitVars, plotVars, simVars>>

\* make_figure(...) returns (lines 949-954): it has drawn its panels and
\* called plt.show() (line 168).
Return_make_figure ==
    /\ Running("make_figure")
    /\ panels' = make_figure_panels
    /\ files' = files \cup make_figure_files
    /\ shown' = shown + 1
    /\ Returns("make_figure")
    /\ UNCHANGED <<mask_start, mask_stop, mask, good_z_init, z_init,
                   permutation, z_perm, handed>>
    /\ UNCHANGED <<cacheVars, fitVars, plotVars, simVars>>

\* The plt.show() of line 956 returns.
Return_plt_show ==
    /\ Running("plt_show")
    /\ shown' = shown + 1
    /\ Returns("plt_show")
    /\ UNCHANGED <<mask_start, mask_stop, mask, good_z_init, z_init,
                   permutation, z_perm, handed, files, panels>>
    /\ UNCHANGED <<cacheVars, fitVars, plotVars, simVars>>

(***************************************************************************)
(* Calls of a function decorated with cached(name), and the environment    *)
(* removing the results file.                                              *)
(***************************************************************************)
MaxCalls == 4
MaxArg == 2

CacheInit ==
    /\ cacheOn \in BOOLEAN
    /\ dirExists \in BOOLEAN
    /\ resultsFile \in {Absent} \cup
                       (IF dirExists THEN {Holding(func(0, 0))} ELSE {})
    /\ fileRemoved = FALSE
    /\ nCalls = 0
    /\ execCount = 0
    /\ lastArgs = 0
    /\ lastOut = Returned(NoResults)
    /\ fsOps = {}

CacheIdle ==
    /\ cacheOn = CACHE_RESULTS
    /\ dirExists = FALSE
    /\ resultsFile = Absent
    /\ fileRemoved = FALSE
    /\ nCalls = 0
    /\ execCount = 0
    /\ lastArgs = 0
    /\ lastOut = Returned(NoResults)
    /\ fsOps = {}

\* One call of the decorated function with arguments args.
CallCached ==
    /\ nCalls < MaxCalls
    /\ \E args \in 1 .. MaxArg :
          LET r == cached(cacheOn, dirExists, resultsFile, args,
                          execCount + 1)
          IN  /\ nCalls' = nCalls + 1
              /\ lastArgs' = args
              /\ execCount' = IF r.executed THEN execCount + 1 ELSE execCount
              /\ lastOut' = r.out
              /\ resultsFile' = r.file
              /\ fsOps' = fsOps \cup r.ops
    /\ UNCHANGED <<cacheOn, dirExists, fileRemoved>>
    /\ UNCHANGED <<mainVars, fitVars, plotVars, simVars>>

\* The environment removes the results file.
RemoveFile ==
    /\ resultsFile.exists
    /\ resultsFile' = Absent
    /\ fileRemoved' = TRUE
    /\ UNCHANGED <<cacheOn, dirExists, nCalls, execCount, lastArgs, lastOut,
                   fsOps>>
    /\ UNCHANGED <<mainVars, fitVars, plotVars, simVars>>

(***************************************************************************)
(* fit_slds, fit_rslds, fit_sticky_rslds, fit_roslds, fit_sticky_roslds:   *)
(* the five share one body after the model is built (lines 670-687,        *)
(* 713-733, 761-781, 807-826, 854-873).  The sample the model holds is     *)
(* named by the number of resample_model() calls made; log_likelihood()    *)
(* and stateseqs[0] are those of that sample.                              *)
(***************************************************************************)
MaxIters == 3
InitSweeps == 100

FitFunctions ==
    {"fit_slds", "fit_rslds", "fit_sticky_rslds", "fit_roslds",
     "fit_sticky_roslds"}

\* A faulty variant of fit_loop_next: one iteration too many.
fit_loop_next_off_by_one(i, n) ==
    IF i <= n THEN "resample_model" ELSE "return"

\* for _ in progprint_xrange(N_iters): after i iterations of n.
fit_loop_next(i, n) == IF i < n THEN "resample_model" ELSE "return"

FitInit ==
    /\ fit_fn \in FitFunctions
    /\ N_iters \in 0 .. MaxIters
    /\ fitpc = "init"
    /\ fit_i = 0
    /\ sweep = 0
    /\ calls = <<>>
    /\ lps = <<>>
    /\ z_smpls = <<>>

FitIdle ==
    /\ fit_fn = "fit_slds"
    /\ N_iters = 0
    /\ fitpc = "returned"
    /\ fit_i = 0
    /\ sweep = 0
    /\ calls = <<>>
    /\ lps = <<>>
    /\ z_smpls = <<>>

\* for _ in progprint_xrange(100): resample_dynamics_distns(); after the
\* last one lps and z_smpls are set to [] and the second loop starts.
FitResampleDynamics ==
    /\ fitpc = "init"
    /\ calls' = Append(calls, "resample_dynamics_distns")
    /\ IF fit_i + 1 < InitSweeps
       THEN /\ fit_i' = fit_i + 1
            /\ fitpc' = "init"
            /\ UNCHANGED <<lps, z_smpls>>
       ELSE /\ fit_i' = 0
            /\ lps' = <<>>
            /\ z_smpls' = <<>>
            /\ fitpc' = fit_loop_next(0, N_iters)
    /\ UNCHANGED <<fit_fn, N_iters, sweep>>
    /\ UNCHANGED <<mainVars, cacheVars, plotVars, simVars>>

FitResampleModel ==
    /\ fitpc = "resample_model"
    /\ calls' = Append(calls, "resample_model")
    /\ sweep' = sweep + 1
    /\ fitpc' = "log_likelihood"
    /\ UNCHANGED <<fit_fn, N_iters, fit_i, lps, z_smpls>>
    /\ UNCHANGED <<mainVars, cacheVars, plotVars, simVars>>

FitLogLikelihood ==
    /\ fitpc = "log_likelihood"
    /\ calls' = Append(calls, "log_likelihood")
    /\ lps' = Append(lps, sweep)
    /\ fitpc' = "copy"
    /\ UNCHANGED <<fit_fn, N_iters, fit_i, sweep, z_smpls>>
    /\ UNCHANGED <<mainVars, cacheVars, plotVars, simVars>>

FitCopyStateseq ==
    /\ fitpc = "copy"
    /\ calls' = Append(calls, "copy")
    /\ z_smpls' = Append(z_smpls, sweep)
    /\ fit_i' = fit_i + 1
    /\ fitpc' = fit_loop_next(fit_i + 1, N_iters)
    /\ UNCHANGED <<fit_fn, N_iters, sweep, lps>>
    /\ UNCHANGED <<mainVars, cacheVars, plotVars, simVars>>

\* x_test, np.array(...), the prints, return.
FitReturn ==
    /\ fitpc = "return"
    /\ fitpc' = "returned"
    /\ UNCHANGED <<fit_fn, N_iters, fit_i, sweep, calls, lps, z_smpls>>
    /\ UNCHANGED <<mainVars, cacheVars, plotVars, simVars>>

\* A library call of the function raises: the function has no try.
FitRaise ==
    /\ fitpc \in {"init", "resample_model", "log_likelihood"}
    /\ fitpc' = "raised"
    /\ UNCHANGED <<fit_fn, N_iters, fit_i, sweep, calls, lps, z_smpls>>
    /\ UNCHANGED <<mainVars, cacheVars, plotVars, simVars>>

(***************************************************************************)
(* The dynamics simulate_nascar builds (lines 447-461) and plot_dynamics   *)
(* (lines 171-203), in exact arithmetic.  A 2x2 matrix is                  *)
(* <<a11, a12, a21, a22>>; matrices have integer entries; vectors are in   *)
(* twentieths, so that the offsets 0.1 and -0.25 are the integers 2 and    *)
(* -5 and the centres (+-2, 0) are (+-40, 0).                              *)
(***************************************************************************)
MaxEntry == 1

Matrices ==
    { <<a, b, c, d>> : a \in -MaxEntry .. MaxEntry, b \in -MaxEntry .. MaxEntry,
                       c \in -MaxEntry .. MaxEntry, d \in -MaxEntry .. MaxEntry }

eye == <<1, 0, 0, 1>>

msub(A, B) == <<A[1] - B[1], A[2] - B[2], A[3] - B[3], A[4] - B[4]>>

\* A.dot(v)
dot(A, v) == <<A[1] * v[1] + A[2] * v[2], A[3] * v[1] + A[4] * v[2]>>

neg(v) == <<-v[1], -v[2]>>

det(A) == A[1] * A[4] - A[2] * A[3]

\* Lines 451-452.
centers == << <<40, 0>>, <<-40, 0>> >>

\* A faulty variant of bs_of: the sign is lost.
bs_of_unsigned(A, center) == dot(msub(A, eye), center)

\* Line 453: -(A - np.eye(D_latent)).dot(center).
bs_of(A, center) == neg(dot(msub(A, eye), center))

\* The k-th dynamics state of simulate_nascar, R being the rotation drawn
\* for it: two rotational states about their centres, then the two states
\* with A = I and offsets (+0.1, 0) and (-0.25, 0).
nascar_dynamics(k, R) ==
    IF k <= 2
    THEN [k |-> k, A |-> R, b |-> bs_of(R, centers[k])]
    ELSE [k |-> k, A |-> eye, b |-> IF k = 3 THEN <<2, 0>> ELSE <<-5, 0>>]

\* np.linalg.solve(M, b): the solution as numerators over the common
\* denominator det(M); LinAlgError when M is singular.
solve(M, b) ==
    IF det(M) = 0
    THEN [raised |-> "LinAlgError", num |-> <<0, 0>>, den |-> 1]
    ELSE [raised |-> "",
          num |-> <<M[4] * b[1] - M[2] * b[2], M[1] * b[2] - M[3] * b[1]>>,
          den |-> det(M)]

NoMarker == [drawn |-> FALSE, num |-> <<0, 0>>, den |-> 1]

\* A faulty variant of plot_stable_point: the solve is not guarded.
plot_stable_point_unguarded(A, b) ==
    LET x == solve(msub(A, eye), b)
    IN  IF x.raised # ""
        THEN [raised |-> x.raised, marker |-> NoMarker, printed |-> <<>>]
        ELSE [raised |-> "",
              marker |-> [drawn |-> TRUE, num |-> neg(x.num), den |-> x.den],
              printed |-> <<>>]

\* Lines 193-198: try: center = -solve(A - I, b); ax.plot(center...)
\* except: print(...).
plot_stable_point(A, b) ==
    LET x == solve(msub(A, eye), b)
    IN  IF x.raised # ""
        THEN [raised |-> "", marker |-> NoMarker,
              printed |-> <<"Dynamics are not invertible!">>]
        ELSE [raised |-> "",
              marker |-> [drawn |-> TRUE, num |-> neg(x.num), den |-> x.den],
              printed |-> <<>>]

PlotInit ==
    /\ \E k \in 1 .. K_true : \E R \in Matrices : dyn = nascar_dynamics(k, R)
    /\ plot_center \in BOOLEAN
    /\ plotpc = "built"
    /\ marker = NoMarker
    /\ printed = <<>>
    /\ labelled = FALSE

PlotIdle ==
    /\ dyn = nascar_dynamics(K_true, eye)
    /\ plot_center = FALSE
    /\ plotpc = "returned"
    /\ marker = NoMarker
    /\ printed = <<>>
    /\ labelled = FALSE

\* plot_dynamics(dyn.A, b=dyn.b, plot_center=plot_center) runs.
PlotDynamics ==
    /\ plotpc = "built"
    /\ LET r == IF plot_center
                THEN plot_stable_point(dyn.A, dyn.b)
                ELSE [raised |-> "", marker |-> NoMarker, printed |-> <<>>]
       IN  /\ marker' = r.marker
           /\ printed' = printed \o r.printed
           /\ labelled' = (r.raised = "")
           /\ plotpc' = IF r.raised = "" THEN "returned" ELSE "raised"
    /\ UNCHANGED <<dyn, plot_center>>
    /\ UNCHANGED <<mainVars, cacheVars, fitVars, simVars>>

(***************************************************************************)
(* simulate_nascar (lines 436-528) as far as the shape of the model goes,  *)
(* with the globals K and K_true of line 46 set to Kc and Ktc and R1, R2   *)
(* the two rotations drawn.  Weights and biases are in hundredths after    *)
(* the scaling by reg_scale; the stick-breaking correction mu_b is not     *)
(* modelled.                                                               *)
(***************************************************************************)
MaxK == 5

NoModel ==
    [dynamics_distns |-> <<>>, init_dynamics_distns |-> <<>>,
     reg_W |-> <<>>, reg_b |-> <<>>]

\* Lines 437-511: the assertion, then the model.
simulate_nascar_model(Kc, Ktc, R1, R2) ==
    IF Ktc # 4
    THEN [raised |-> "AssertionError", model |-> NoModel]
    ELSE [raised |-> "",
          model |->
            [dynamics_distns |->
                << nascar_dynamics(1, R1), nascar_dynamics(2, R2),
                   nascar_dynamics(3, eye), nascar_dynamics(4, eye) >>,
             init_dynamics_distns |-> [i \in 1 .. Kc |-> <<0, 20>>],
             reg_W |-> << <<100, 0>>, <<-100, 0>>, <<0, 100>> >>,
             reg_b |-> << -200, -200, 0 >>]]

SimInit ==
    /\ cfg \in [K : 1 .. MaxK, K_true : 1 .. MaxK]
    /\ sim = [status |-> "not run", model |-> NoModel]

SimIdle ==
    /\ cfg = [K |-> K, K_true |-> K_true]
    /\ sim = [status |-> "not run", model |-> NoModel]

\* simulate_nascar() runs: the assertion fails, or the model is built and
\* model.generate (a library call) returns or raises.
SimulateNascar ==
    /\ sim.status = "not run"
    /\ \E R1 \in Matrices, R2 \in Matrices, generated \in BOOLEAN :
          LET r == simulate_nascar_model(cfg.K, cfg.K_true, R1, R2)
          IN  sim' = [status |-> IF r.raised # "" THEN r.raised
                                 ELSE IF generated THEN "returned"
                                 ELSE "generate raised",
                      model |-> r.model]
    /\ UNCHANGED cfg
    /\ UNCHANGED <<mainVars, cacheVars, fitVars, plotVars>>

(***************************************************************************)
(* The specifications.                                                     *)
(***************************************************************************)
\* The script run as a program.
Init == MainInit /\ CacheIdle /\ FitIdle /\ PlotIdle /\ SimIdle

Next ==
    \/ Call
    \/ Raise
    \/ Return_simulate_nascar
    \/ Return_fit_pca
    \/ Return_fit_arhmm
    \/ Return_fit_decision_list
    \/ Return_fit_slds
    \/ Return_fit_roslds
    \/ Return_plot_trajectory_and_probs
    \/ Return_generate
    \/ Return_make_figure
    \/ Return_plt_show

Spec == Init /\ [][Next]_vars

\* Calls of a cached function.
InitCache == MainIdle /\ CacheInit /\ FitIdle /\ PlotIdle /\ SimIdle

NextCache == CallCached \/ RemoveFile

SpecCache == InitCache /\ [][NextCache]_vars

\* One call of a fit_* function.  The function is sequential code: it takes
\* its next step as long as it has one.
InitFit == MainIdle /\ CacheIdle /\ FitInit /\ PlotIdle /\ SimIdle

NextFit ==
    \/ FitResampleDynamics
    \/ FitResampleModel
    \/ FitLogLikelihood
    \/ FitCopyStateseq
    \/ FitReturn
    \/ FitRaise

SpecFit == InitFit /\ [][NextFit]_vars /\ WF_vars(NextFit)

\* One call of plot_dynamics on a dynamics state of simulate_nascar.
InitPlot == MainIdle /\ CacheIdle /\ FitIdle /\ PlotInit /\ SimIdle

NextPlot == PlotDynamics

SpecPlot == InitPlot /\ [][NextPlot]_vars

(***************************************************************************)
(* The properties.                                                         *)
(***************************************************************************)
IsPrefix(s, t) ==
    /\ Len(s) <= Len(t)
    /\ \A i \in 1 .. Len(s) : s[i] = t[i]

C1Order ==
    << "simulate_nascar", "fit_pca", "fit_arhmm", "fit_decision_list",
       "fit_slds", "fit_roslds", "generate", "make_figure" >>

IsC1Call(e) == e[1] = "call" /\ e[2] \in { C1Order[i] : i \in 1 .. Len(C1Order) }

\* The stages of C1Order called so far, in call order.
StagesCalled ==
    LET sel == SelectSeq(trace, IsC1Call)
    IN  [i \in 1 .. Len(sel) |-> sel[i][2]]

\* C1: in the main run the stages simulate_nascar, fit_pca, fit_arhmm,
\* fit_decision_list, fit_slds, fit_roslds, generation, make_figure are
\* called in this order, each at most once and only after the function
\* called before it has returned, so that at most one is active at any
\* time; a run that completes has called each exactly once.
C1_StagesInOrder ==
    /\ Cardinality(active) <= 1
    /\ \A i \in 2 .. Len(trace) :
          trace[i][1] = "call" => trace[i - 1][1] = "return"
    /\ IsPrefix(StagesCalled, C1Order)
    /\ status = "done" => StagesCalled = C1Order

C1_Witness ==
    /\ status = "done"
    /\ StagesCalled = C1Order
    /\ trace[Len(trace)] = <<"return", "plt_show">>

\* C2: a call of plot_dynamics with plot_center on and A - I singular
\* returns normally, having printed "Dynamics are not invertible!", drawn
\* no centre marker and labelled the axes.
C2_SingularIsCaught ==
    (plotpc # "built" /\ plot_center /\ det(msub(dyn.A, eye)) = 0)
    => /\ plotpc = "returned"
       /\ printed = <<"Dynamics are not invertible!">>
       /\ ~marker.drawn
       /\ labelled

C2_Witness ==
    /\ plotpc = "returned"
    /\ plot_center
    /\ dyn.k = 3
    /\ det(msub(dyn.A, eye)) = 0
    /\ printed = <<"Dynamics are not invertible!">>

\* C3: with CACHE_RESULTS off every call of the decorated function executes
\* the function on the caller's arguments and returns that execution's
\* result, and the wrapper performs no file operation (no exists, no read,
\* no write).
C3_CacheOffIsTheFunction ==
    ~cacheOn
    => /\ fsOps = {}
       /\ execCount = nCalls
       /\ nCalls > 0 => lastOut = Returned(func(lastArgs, nCalls))

C3_Witness ==
    /\ ~cacheOn
    /\ nCalls = 2
    /\ resultsFile.exists
    /\ lastOut = Returned(func(lastArgs, 2))

\* C4: with CACHE_RESULTS on and the results file never removed, the
\* function is executed at most once, and after any call the file holds the
\* stored result and the call has returned it.
C4_ExecutedAtMostOnce ==
    (cacheOn /\ ~fileRemoved)
    => /\ execCount <= 1
       /\ nCalls > 0 => /\ resultsFile.exists
                        /\ lastOut = Returned(resultsFile.content)

\* C5: an exception raised by a stage of the main run ends the run: the
\* raise is the last event, no stage is called twice, and nothing is active
\* afterwards.
C5_ExceptionEndsRun ==
    /\ \A i \in 1 .. Len(trace) :
          trace[i][1] = "raise" => (i = Len(trace) /\ status = "raised")
    /\ \A i, j \in 1 .. Len(trace) :
          (trace[i][1] = "call" /\ trace[j] = trace[i]) => i = j
    /\ status = "raised"
       => /\ active = {}
          /\ Len(trace) > 0
          /\ trace[Len(trace)] = <<"raise", MainStages[pc]>>

C5_Witness ==
    /\ status = "raised"
    /\ trace[Len(trace)] = <<"raise", "fit_slds">>
    /\ Len(handed) = 1

Filenames == {None, "figure.png"}

\* C6: every plotting helper writes a file only when its filename is not
\* None; the main run writes no file, and a completed run has shown its
\* figures (both plt.show() calls).
C6_NoFileOutput ==
    /\ \A f \in Filenames :
          /\ plot_all_dynamics(f) # {} => f # None
          /\ plot_trans_probs(f) # {} => f # None
          /\ plot_trajectory(f) # {} => f # None
          /\ plot_data(f) # {} => f # None
          /\ plot_separate_trans_probs(f) # {} => f # None
          /\ plot_z_samples(f) # {} => f # None
          /\ \A d \in {None, "trans_distn"} :
                plot_trajectory_and_probs(d, f) # {} => f # None
    /\ files = {}
    /\ status = "done" => shown = 2

C6_Witness ==
    /\ status = "done"
    /\ files = {}
    /\ shown = 2
    /\ panels # {}
    /\ plot_z_samples("figure.png") # {}

\* What the docstring of make_figure lists.
DocstringItems ==
    { [of |-> "true", shows |-> "dynamics"],
      [of |-> "true", shows |-> "trajectory"],
      [of |-> "true", shows |-> "observations"],
      [of |-> "arhmm", shows |-> "segmentation"],
      [of |-> "rslds", shows |-> "segmentation"],
      [of |-> "arhmm", shows |-> "synthesis"],
      [of |-> "rslds", shows |-> "synthesis"] }

\* C7: the figure make_figure has drawn shows every item of its docstring:
\* true dynamics, true trajectory, observations, ARHMM segmentation, rSLDS
\* segmentation, ARHMM synthesis, rSLDS synthesis.
C7_FigureShowsDocstring ==
    panels # {}
    => \A item \in DocstringItems :
          \E p \in panels : p.of = item.of /\ p.shows = item.shows

\* The j-th library call of a fit_* function with n iterations.
ExpectedCall(j) ==
    IF j <= 100
    THEN "resample_dynamics_distns"
    ELSE <<"resample_model", "log_likelihood", "copy">>[((j - 101) % 3) + 1]

C8_Order ==
    /\ Len(calls) <= 100 + 3 * N_iters
    /\ \A j \in 1 .. Len(calls) : calls[j] = ExpectedCall(j)
    /\ \A i \in 1 .. Len(lps) : lps[i] = i
    /\ \A i \in 1 .. Len(z_smpls) : z_smpls[i] = i
    /\ fitpc = "returned"
       => /\ Len(calls) = 100 + 3 * N_iters
          /\ Len(lps) = N_iters
          /\ Len(z_smpls) = N_iters

\* C8: a fit_* function makes exactly 100 resample_dynamics_distns calls,
\* then N_iters times resample_model, log_likelihood, copy in this order;
\* entry i of lps and of z_smpls is that of the i-th sample; what it returns
\* has N_iters entries of each; and it always ends (returns, or a library
\* call raises).
C8_FitLoop == []C8_Order /\ <>(fitpc \in {"returned", "raised"})

C8_Witness ==
    /\ fitpc = "returned"
    /\ fit_fn = "fit_sticky_roslds"
    /\ N_iters = 2
    /\ lps = <<1, 2>>
    /\ z_smpls = <<1, 2>>

\* C9: for a rotational state of simulate_nascar the configured centre c
\* satisfies A c + b = c, and when A - I is invertible the centre
\* plot_dynamics draws is c.
C9_CentreRoundTrip ==
    dyn.k <= 2
    => LET c == centers[dyn.k]
           Ac == dot(dyn.A, c)
       IN  /\ <<Ac[1] + dyn.b[1], Ac[2] + dyn.b[2]>> = c
           /\ (plotpc # "built" /\ plot_center
                 /\ det(msub(dyn.A, eye)) # 0)
              => /\ plotpc = "returned"
                 /\ marker.drawn
                 /\ marker.num = <<marker.den * c[1], marker.den * c[2]>>

C9_Witness ==
    /\ dyn.k = 1
    /\ dyn.A = <<0, -1, 1, 0>>
    /\ plotpc = "returned"
    /\ plot_center
    /\ marker.drawn
    /\ marker.num = <<marker.den * 40, 0>>

LabelPermutations ==
    { pi \in [Labels -> Labels] : \A a, b \in Labels : pi[a] = pi[b] => a = b }

IsRelabelling(z, z0) ==
    /\ Len(z) = T
    /\ \A t \in 1 .. T : z[t] \in Labels
    /\ \E pi \in LabelPermutations : \A t \in 1 .. T : z[t] = pi[z0[t]]
    /\ \A u, t \in 1 .. T : (z[u] = z[t]) <=> (z0[u] = z0[t])

\* C10: z_perm, and with it every label sequence handed to a fit, has
\* length T, entries in 0..K-1, and is z_init with its labels renamed by a
\* permutation of 0..K-1: two steps share a label in the one exactly when
\* they share one in the other.
C10_ZPermIsRelabelledZInit ==
    /\ z_perm # <<>> => IsRelabelling(z_perm, z_init)
    /\ \A i \in 1 .. Len(handed) : IsRelabelling(handed[i], z_init)

C10_Witness ==
    /\ Len(handed) = 2
    /\ handed[1] = z_perm
    /\ handed[2] = z_perm
    /\ z_perm # z_init
    /\ Cardinality({ z_init[t] : t \in 1 .. T }) > 1

(***************************************************************************)
(* The main run with the mask window of line 47 set to any window          *)
(* 0 <= mask_start <= mask_stop <= T.                                      *)
(***************************************************************************)
MainInitAnyMask ==
    /\ pc = 1
    /\ status = "running"
    /\ active = {}
    /\ trace = <<>>
    /\ mask_start \in 0 .. T
    /\ mask_stop \in mask_start .. T
    /\ mask = <<>>
    /\ good_z_init = <<>>
    /\ z_init = <<>>
    /\ permutation = <<>>
    /\ z_perm = <<>>
    /\ handed = <<>>
    /\ files = {}
    /\ shown = 0
    /\ panels = {}

InitMask == MainInitAnyMask /\ CacheIdle /\ FitIdle /\ PlotIdle /\ SimIdle

SpecMask == InitMask /\ [][Next]_vars

\* C11: once the main block has built z_init, every observed step has the
\* label fit_arhmm returned for it (the ARHMM sees the observed steps only,
\* in order), every step of the masked window has the label of the step
\* immediately before the window (step mask_start - 1, which has to exist),
\* and with the window (0, 0) every step is observed.
C11_MaskedLabels ==
    z_init # <<>>
    => /\ \A t \in 1 .. T :
             mask[t] => z_init[t] = good_z_init[rank(t, mask)]
       /\ \A t \in 1 .. T :
             ~mask[t] => /\ mask_start - 1 \in 0 .. (T - 1)
                         /\ z_init[t] = z_init[(mask_start - 1) + 1]
       /\ (mask_start = 0 /\ mask_stop = 0) => \A t \in 1 .. T : mask[t]

\* One call of simulate_nascar under any setting of K and K_true.
InitSim == MainIdle /\ CacheIdle /\ FitIdle /\ PlotIdle /\ SimInit

NextSim == SimulateNascar

SpecSim == InitSim /\ [][NextSim]_vars

\* C12: simulate_nascar gets past its first statement only when K_true is
\* 4 (otherwise it raises AssertionError and builds nothing), and the model
\* it builds has K_true dynamics distributions, K_true initial-state
\* distributions and K_true - 1 rows of transition weights and of biases.
C12_ModelShape ==
    /\ (sim.status # "not run" /\ cfg.K_true # 4)
       => (sim.status = "AssertionError" /\ sim.model = NoModel)
    /\ sim.status \in {"returned", "generate raised"}
       => /\ cfg.K_true = 4
          /\ Len(sim.model.dynamics_distns) = cfg.K_true
          /\ Len(sim.model.init_dynamics_distns) = cfg.K_true
          /\ Len(sim.model.reg_W) = cfg.K_true - 1
          /\ Len(sim.model.reg_b) = cfg.K_true - 1

====
